---- MODULE Spec2Model ----
(***************************************************************************)
(* A model of the Personalized-Guide repository: the favorites store       *)
(* (src/db.py), the HTTP surface with its save-intent router (src/api.py)  *)
(* and the Streamlit session handlers (src/app.py).                        *)
(*                                                                         *)
(* Strings are tuples of one-character strings, so that the regular        *)
(* expression search, strip() and the "marker in text" test are computed   *)
(* on characters.  The fixed pieces of a status text are single elements.  *)
(* The emoji of the source are written by their code points, for example   *)
(* "U+2705" for the check mark.                                            *)
(*                                                                         *)
(* Three specifications share the definitions of the store:                  *)
(*   Spec         concurrent callers of add_favorite, get_favorites and    *)
(*                clear_favorites (Streamlit session threads, API worker   *)
(*                processes) on one database file;                         *)
(*   SpecSurface  the request handlers of src/api.py, each run to          *)
(*                completion (an async handler without an await runs alone *)
(*                on the event loop);                                      *)
(*   SpecUi       the handlers of one Streamlit session (src/app.py).      *)
(***************************************************************************)
EXTENDS Naturals, Sequences, FiniteSets

VARIABLES
    store,      \* rows of table favorites, in rowid order: [id, city, place_name]
    seq,        \* the AUTOINCREMENT counter (sqlite_sequence) of the table
    phase,      \* Spec: per caller "idle" or "exec" (connected, statement not yet run)
    call,       \* Spec: per caller the db function in progress and its arguments
    ret,        \* Spec: the most recent return of a db function
    outcomes,   \* history: per place_name the outcomes of the adds since the last clear
                \* (with the city of an add that saved)
    log,        \* history: the adds that returned saved since the last clear, in order
    cleared,    \* history: the place_names some clear has deleted
    env_key,    \* SpecSurface: os.environ GEMINI_API_KEY, {} when unset
    session,    \* SpecUi: st.session_state of the Streamlit session
    last        \* SpecSurface, SpecUi: the latest request, its response, what it called

dbVars == <<store, seq>>
histVars == <<outcomes, log, cleared>>
callVars == <<phase, call, ret>>
surfaceVars == <<env_key, session, last>>
vars == <<store, seq, phase, call, ret, outcomes, log, cleared,
          env_key, session, last>>

--------------------------------------------------------------------------
(* Bounds of the model *)

\* at most MaxId rows are ever inserted (caps the AUTOINCREMENT counter)
MaxId == 2
\* no add begins once the store has answered MaxAdds adds since the last clear
MaxAdds == 2
\* at most MaxUiMsgs messages in a Streamlit session before it is restarted
MaxUiMsgs == 3

--------------------------------------------------------------------------
(* Strings *)

EmptyStr == <<>>
OkMark == "U+2705"        \* the success marker glyph
ThinkMark == "U+1F914"
AlarmMark == "U+1F6A8"
WarnMark == "U+26A0"

Paris == <<"P">>
Tokyo == <<"T">>
Louvre == <<"L">>
Shibuya == <<"S">>
MarkedPlace == <<OkMark>>  \* a place name that is the marker glyph itself

\* no exception
NoErr == <<>>
\* the messages of the sqlite3 errors other than IntegrityError
StoreErrors == {<<"database is locked">>}

Contains(text, c) == \E i \in 1..Len(text) : text[i] = c

--------------------------------------------------------------------------
(* src/db.py : the statements of the store *)

\* a validation that forgets the place name: if not city
validation_failed_city_only(city, place_name) == city = EmptyStr

\* line 20
validation_failed(city, place_name) == city = EmptyStr \/ place_name = EmptyStr

\* the UNIQUE constraint on place_name (line 13), raised as IntegrityError
unique_violation(rows, place_name) ==
    \E i \in 1..Len(rows) : rows[i].place_name = place_name

\* INSERT INTO favorites (city, place_name) VALUES (?, ?)
insert_row(rows, id, city, place_name) ==
    Append(rows, [id |-> id, city |-> city, place_name |-> place_name])

\* SELECT city as City, place_name as 'Favorite Place' FROM favorites
select_favorites(rows) ==
    [i \in 1..Len(rows) |-> [City |-> rows[i].city, FavoritePlace |-> rows[i].place_name]]

\* a DELETE that is never committed
delete_uncommitted(rows) == rows

\* DELETE FROM favorites
delete_all(rows) == <<>>

warning_text == <<WarnMark, " Error: City and Place Name cannot be empty.">>
saved_text(place_name) ==
    <<OkMark, " **">> \o place_name \o <<"** has been saved to your favorites!">>
duplicate_text(place_name) ==
    <<ThinkMark, " Looks like **">> \o place_name \o <<"** is already in your favorites list.">>
error_text(e) == <<AlarmMark, " An error occurred: ">> \o e

\* a uniqueness scoped per city: UNIQUE (city, place_name)
insert_tx_per_city(rows, sq, city, place_name, e) ==
    IF e # NoErr
    THEN [store |-> rows, seq |-> sq, outcome |-> "failed", text |-> error_text(e)]
    ELSE IF \E i \in 1..Len(rows) :
                rows[i].place_name = place_name /\ rows[i].city = city
    THEN [store |-> rows, seq |-> sq, outcome |-> "duplicate",
          text |-> duplicate_text(place_name)]
    ELSE [store |-> insert_row(rows, sq + 1, city, place_name), seq |-> sq + 1,
          outcome |-> "saved", text |-> saved_text(place_name)]

\* an upsert: INSERT OR REPLACE INTO favorites
insert_tx_replace(rows, sq, city, place_name, e) ==
    IF e # NoErr
    THEN [store |-> rows, seq |-> sq, outcome |-> "failed", text |-> error_text(e)]
    ELSE [store |-> insert_row(SelectSeq(rows, LAMBDA r : r.place_name # place_name),
                               sq + 1, city, place_name),
          seq |-> sq + 1, outcome |-> "saved", text |-> saved_text(place_name)]

\* lines 25-32: the INSERT and its commit, one write transaction of the
\* database (SQLite serialises write transactions on the file lock; a
\* statement that cannot run raises e).
insert_tx(rows, sq, city, place_name, e) ==
    IF e # NoErr
    THEN [store |-> rows, seq |-> sq, outcome |-> "failed", text |-> error_text(e)]
    ELSE IF unique_violation(rows, place_name)
    THEN [store |-> rows, seq |-> sq, outcome |-> "duplicate",
          text |-> duplicate_text(place_name)]
    ELSE [store |-> insert_row(rows, sq + 1, city, place_name), seq |-> sq + 1,
          outcome |-> "saved", text |-> saved_text(place_name)]

\* lines 37-45: the SELECT; a failing query is answered by an empty frame
select_tx(rows, e) == IF e # NoErr THEN <<>> ELSE select_favorites(rows)

--------------------------------------------------------------------------
(* History variables *)

Places == {Louvre, Shibuya, MarkedPlace}

record_add(oc, place_name, tx, city) ==
    IF place_name \in DOMAIN oc
    THEN [oc EXCEPT ![place_name] =
            Append(@, [outcome |-> tx.outcome,
                       city |-> IF tx.outcome = "saved" THEN city ELSE EmptyStr])]
    ELSE oc

record_log(lg, place_name, tx, city) ==
    IF tx.outcome = "saved" THEN Append(lg, [City |-> city, FavoritePlace |-> place_name])
    ELSE lg

stored_places(rows) == {rows[i].place_name : i \in 1..Len(rows)}

RecordInsert(place_name, tx, city) ==
    /\ outcomes' = record_add(outcomes, place_name, tx, city)
    /\ log' = record_log(log, place_name, tx, city)
    /\ UNCHANGED cleared

RecordClear ==
    /\ outcomes' = [p \in Places |-> <<>>]
    /\ log' = <<>>
    /\ cleared' = cleared \cup stored_places(store)

\* the number of adds the store has answered since the last clear
RECURSIVE adds_recorded(_, _)
adds_recorded(oc, places) ==
    IF places = {} THEN 0
    ELSE LET pl == CHOOSE x \in places : TRUE
         IN Len(oc[pl]) + adds_recorded(oc, places \ {pl})

\* an add may begin while the caps leave room for it
AddRoom(place_name) ==
    /\ seq < MaxId
    /\ adds_recorded(outcomes, Places) < MaxAdds

--------------------------------------------------------------------------
(* Spec: concurrent callers of the db functions *)

Callers == {"c1", "c2"}
CallCities == {EmptyStr, Paris, Tokyo}
CallPlaces == {EmptyStr, Louvre, Shibuya}

NoCall == [fn |-> "none", city |-> EmptyStr, place_name |-> EmptyStr]
NoRet == [fn |-> "none", city |-> EmptyStr, place_name |-> EmptyStr,
          raised |-> FALSE, err |-> NoErr, text |-> EmptyStr, rows |-> <<>>,
          fault |-> NoErr]

Return(p, fn, city, place_name, raised, err, text, rows, fault) ==
    ret' = [fn |-> fn, city |-> city, place_name |-> place_name,
            raised |-> raised, err |-> err, text |-> text, rows |-> rows,
            fault |-> fault]

\* add_favorite, lines 19-24: validation, then sqlite3.connect (outside the try)
AddFavoriteCall(p) ==
    /\ phase[p] = "idle"
    /\ \E city \in CallCities, place_name \in CallPlaces, e \in {NoErr} \cup StoreErrors :
        IF validation_failed(city, place_name)
        THEN /\ e = NoErr
             /\ Return(p, "add", city, place_name, FALSE, NoErr, warning_text, <<>>, NoErr)
             /\ UNCHANGED <<phase, call>>
        ELSE IF e # NoErr
        THEN /\ Return(p, "add", city, place_name, TRUE, e, EmptyStr, <<>>, e)
             /\ UNCHANGED <<phase, call>>
        ELSE /\ AddRoom(place_name)
             /\ phase' = [phase EXCEPT ![p] = "exec"]
             /\ call' = [call EXCEPT ![p] =
                            [fn |-> "add", city |-> city, place_name |-> place_name]]
             /\ UNCHANGED ret
    /\ UNCHANGED <<dbVars, histVars, surfaceVars>>

\* add_favorite, lines 25-35
AddFavoriteExec(p) ==
    /\ phase[p] = "exec" /\ call[p].fn = "add"
    /\ \E e \in {NoErr} \cup StoreErrors :
        LET c == call[p]
            tx == insert_tx(store, seq, c.city, c.place_name, e)
        IN /\ store' = tx.store
           /\ seq' = tx.seq
           /\ RecordInsert(c.place_name, tx, c.city)
           /\ Return(p, "add", c.city, c.place_name, FALSE, NoErr, tx.text, <<>>, e)
    /\ phase' = [phase EXCEPT ![p] = "idle"]
    /\ call' = [call EXCEPT ![p] = NoCall]
    /\ UNCHANGED surfaceVars

\* get_favorites, lines 37-45: sqlite3.connect (outside the try), then the one
\* query, whose failure is caught
GetFavorites(p) ==
    /\ phase[p] = "idle"
    /\ \E ce \in {NoErr} \cup StoreErrors, e \in {NoErr} \cup StoreErrors :
        IF ce # NoErr
        THEN /\ e = NoErr
             /\ Return(p, "list", EmptyStr, EmptyStr, TRUE, ce, EmptyStr, <<>>, ce)
        ELSE Return(p, "list", EmptyStr, EmptyStr, FALSE, NoErr, EmptyStr,
                    select_tx(store, e), e)
    /\ UNCHANGED <<phase, call, dbVars, histVars, surfaceVars>>

\* clear_favorites, lines 47-52: connect, DELETE, commit; nothing is caught
ClearFavorites(p) ==
    /\ phase[p] = "idle"
    /\ \E e \in {NoErr} \cup StoreErrors :
        IF e # NoErr
        THEN /\ Return(p, "clear", EmptyStr, EmptyStr, TRUE, e, EmptyStr, <<>>, e)
             /\ UNCHANGED <<dbVars, histVars>>
        ELSE /\ store' = delete_all(store)
             /\ UNCHANGED seq
             /\ RecordClear
             /\ Return(p, "clear", EmptyStr, EmptyStr, FALSE, NoErr, EmptyStr, <<>>, NoErr)
    /\ UNCHANGED <<phase, call, surfaceVars>>

--------------------------------------------------------------------------
(* src/db.py : the functions as the request handlers call them, each run to
   completion.  ce is the error of sqlite3.connect, e the error of the statement. *)

\* lines 19-35
add_favorite(rows, sq, city, place_name, ce, e) ==
    IF validation_failed(city, place_name)
    THEN [store |-> rows, seq |-> sq, raised |-> FALSE, err |-> NoErr,
          text |-> warning_text, outcome |-> "warning", fault |-> NoErr]
    ELSE IF ce # NoErr
    THEN [store |-> rows, seq |-> sq, raised |-> TRUE, err |-> ce,
          text |-> EmptyStr, outcome |-> "raised", fault |-> ce]
    ELSE LET tx == insert_tx(rows, sq, city, place_name, e)
         IN [store |-> tx.store, seq |-> tx.seq, raised |-> FALSE, err |-> NoErr,
             text |-> tx.text, outcome |-> tx.outcome, fault |-> e]

\* lines 37-45
get_favorites(rows, ce, e) ==
    IF ce # NoErr
    THEN [raised |-> TRUE, err |-> ce, rows |-> <<>>, fault |-> ce]
    ELSE [raised |-> FALSE, err |-> NoErr, rows |-> select_tx(rows, e), fault |-> e]

\* lines 47-52
clear_favorites(rows, e) ==
    IF e # NoErr
    THEN [store |-> rows, raised |-> TRUE, err |-> e, fault |-> e]
    ELSE [store |-> delete_all(rows), raised |-> FALSE, err |-> NoErr, fault |-> NoErr]

--------------------------------------------------------------------------
(* The save-intent router: re.search(r"save\s+(.+)", text, re.IGNORECASE) *)

Min(S) == CHOOSE x \in S : \A y \in S : x <= y
Max(S) == CHOOSE x \in S : \A y \in S : x >= y

\* re.IGNORECASE on the letters of the pattern
Lower(c) ==
    CASE c = "S" -> "s" [] c = "A" -> "a" [] c = "V" -> "v" [] c = "E" -> "e"
      [] OTHER -> c

\* \s
IsSpace(c) == c \in {" ", "\n", "\t"}

\* the literal "save" at position i
SaveAt(s, i) ==
    /\ i + 3 <= Len(s)
    /\ Lower(s[i]) = "s" /\ Lower(s[i + 1]) = "a"
    /\ Lower(s[i + 2]) = "v" /\ Lower(s[i + 3]) = "e"

\* the places where the group (.+) can start after "save" at i: one or more
\* \s before it, and a first character that "." matches (anything but a newline)
GroupStarts(s, i) ==
    {g \in (i + 5)..Len(s) :
        /\ \A x \in (i + 4)..(g - 1) : IsSpace(s[x])
        /\ s[g] # "\n"}

MatchAt(s, i) == SaveAt(s, i) /\ GroupStarts(s, i) # {}

\* the text of group 1 of the leftmost match, {} when nothing matches: \s+ is
\* greedy, so the group starts as late as it can, and .+ runs to the end of
\* the line
save_match(s) ==
    IF \E i \in 1..Len(s) : MatchAt(s, i)
    THEN LET i == Min({x \in 1..Len(s) : MatchAt(s, x)})
             g == Max(GroupStarts(s, i))
             h == Max({y \in g..Len(s) : \A x \in g..y : s[x] # "\n"})
         IN {SubSeq(s, g, h)}
    ELSE {}

\* str.strip()
strip(s) ==
    LET solid == {i \in 1..Len(s) : ~IsSpace(s[i])}
    IN IF solid = {} THEN EmptyStr ELSE SubSeq(s, Min(solid), Max(solid))

\* the content of the very last message, whatever its role
last_message(messages) == messages[Len(messages)].content

\* src/api.py lines 155-158: the content of the last message of role user, "" if none
last_user_message(messages) ==
    LET users == {i \in 1..Len(messages) : messages[i].role = "user"}
    IN IF users = {} THEN EmptyStr ELSE messages[Max(users)].content

\* src/api.py line 162: save_match and request.city_context (None is {})
truthy(city_context) == city_context # {} /\ city_context # {EmptyStr}

\* src/api.py lines 62-67: get_gemini_api_key raises ValueError
key_missing(env) == env = {} \/ env = {EmptyStr}

--------------------------------------------------------------------------
(* Inputs of the request handlers *)

Key == <<"k">>
c_save_L == <<"s", "a", "v", "e", " ", "L">>
c_SAVE_L_padded == <<"S", "A", "V", "E", " ", " ", "L", " ">>
c_hi == <<"h", "i">>
c_saveL == <<"s", "a", "v", "e", "L">>
c_save_blank == <<"s", "a", "v", "e", " ", " ">>
c_xsave_mark == <<"x", "s", "a", "v", "e", "\t", OkMark>>
c_save_lines == <<"s", "a", "v", "e", "\n", "L", "\n", "h", "i">>

U(content) == [role |-> "user", content |-> content]
A(content) == [role |-> "assistant", content |-> content]

Transcripts ==
    { <<U(c_save_L)>>,
      <<U(c_SAVE_L_padded), A(c_xsave_mark)>>,
      <<A(c_save_L)>>,
      <<U(c_hi)>>,
      <<U(c_save_L), U(c_hi)>>,
      <<U(c_saveL)>>,
      <<U(c_save_blank)>>,
      <<U(c_xsave_mark)>>,
      <<U(c_hi), A(c_hi), U(c_save_lines)>> }

\* request.city_context: None, "" or a city
CityContexts == {{}, {EmptyStr}, {Paris}}
Prompts == {c_save_L, c_SAVE_L_padded, c_hi, c_save_blank, c_xsave_mark}
EnvKeys == {{}, {EmptyStr}, {Key}}

\* what a call of the generation client (src/tool.py) can do: return the text
\* of the model, raise an exception of class ValueError (a pydantic
\* ValidationError, a JSONDecodeError, ...), or raise any other exception
GenOutcomes == {"text", "ValueError", "Exception"}
GenText == <<"model text">>
GenError == <<"upstream failure">>

--------------------------------------------------------------------------
(* SpecSurface: the request handlers of the HTTP API (src/api.py) *)

Request(op, city, place_name, messages, city_context, prompt) ==
    [op |-> op, city |-> city, place_name |-> place_name, messages |-> messages,
     city_context |-> city_context, prompt |-> prompt]

\* the request, the response and what the handler called while it ran
Done(rq, status, text, success, favorites, addCalls, genCalls, genRaised, fault, inserted) ==
    last' = [op |-> rq.op, city |-> rq.city, place_name |-> rq.place_name,
             messages |-> rq.messages, city_context |-> rq.city_context,
             prompt |-> rq.prompt,
             status |-> status, text |-> text, success |-> success,
             favorites |-> favorites,
             addCalls |-> addCalls, genCalls |-> genCalls, genRaised |-> genRaised,
             fault |-> fault, inserted |-> inserted]

NoLast == Request("none", EmptyStr, EmptyStr, <<>>, {}, EmptyStr)
NoSession == [messages |-> <<>>, city_context |-> EmptyStr, api_key |-> EmptyStr]

KeyDetail == <<"Service configuration error: Gemini API key not available">>

\* the errors sqlite3.connect and the statement can raise in one call: none,
\* or one of the two
Faults ==
    {<<NoErr, NoErr>>} \cup {<<x, NoErr>> : x \in StoreErrors}
                       \cup {<<NoErr, x>> : x \in StoreErrors}

\* src/api.py lines 130-147 and 166-183: get_gemini_api_key, then the call of the
\* generation client with outcome g, then the except clauses of the handler
generate(rq, g, detail) ==
    IF key_missing(env_key)
    THEN Done(rq, "503", KeyDetail, FALSE, <<>>, <<>>, 0, FALSE, NoErr, FALSE)
    ELSE IF g = "ValueError"
    THEN Done(rq, "503", KeyDetail, FALSE, <<>>, <<>>, 1, TRUE, NoErr, FALSE)
    ELSE IF g = "Exception"
    THEN Done(rq, "500", detail \o GenError, FALSE, <<>>, <<>>, 1, TRUE, NoErr, FALSE)
    ELSE Done(rq, "200", GenText, FALSE, <<>>, <<>>, 1, FALSE, NoErr, FALSE)

\* src/api.py lines 125-147
get_travel_guide ==
    /\ \E city \in {Paris, Tokyo}, g \in GenOutcomes :
        generate(Request("guide", city, EmptyStr, <<>>, {}, EmptyStr), g,
                 <<"Failed to generate travel guide: ">>)
    /\ UNCHANGED <<dbVars, histVars, callVars, env_key, session>>

\* src/api.py lines 149-183
chat_with_guide ==
    /\ \E messages \in Transcripts, city_context \in CityContexts :
        LET rq == Request("chat", EmptyStr, EmptyStr, messages, city_context, EmptyStr)
            match == save_match(last_user_message(messages))
        IN IF match # {} /\ truthy(city_context)
           THEN \E f \in Faults :
                LET city == CHOOSE c \in city_context : TRUE
                    place_to_save == strip(CHOOSE m \in match : TRUE)
                    r == add_favorite(store, seq, city, place_to_save, f[1], f[2])
                    called == <<<<city, place_to_save>>>>
                IN /\ r.seq <= MaxId
                   /\ store' = r.store
                   /\ seq' = r.seq
                   /\ IF r.raised
                      THEN Done(rq, "500", <<"Failed to process chat request: ">> \o r.err,
                                FALSE, <<>>, called, 0, FALSE, r.fault, FALSE)
                      ELSE Done(rq, "200", r.text, FALSE, <<>>, called, 0, FALSE, r.fault,
                                r.outcome = "saved")
           ELSE /\ \E g \in GenOutcomes :
                    generate(rq, g, <<"Failed to process chat request: ">>)
                /\ UNCHANGED dbVars
    /\ UNCHANGED <<histVars, callVars, env_key, session>>

\* src/api.py lines 185-204; the request model (lines 34-36) refuses an empty
\* city or place_name before the handler runs
save_favorite_place ==
    /\ \E city \in {EmptyStr, Paris, Tokyo}, place_name \in {EmptyStr, Louvre, MarkedPlace} :
        LET rq == Request("save_favorite", city, place_name, <<>>, {}, EmptyStr)
        IN IF city = EmptyStr \/ place_name = EmptyStr
           THEN /\ Done(rq, "422", <<"String should have at least 1 character">>, FALSE,
                        <<>>, <<>>, 0, FALSE, NoErr, FALSE)
                /\ UNCHANGED dbVars
           ELSE \E f \in Faults :
                LET r == add_favorite(store, seq, city, place_name, f[1], f[2])
                    called == <<<<city, place_name>>>>
                IN /\ r.seq <= MaxId
                   /\ store' = r.store
                   /\ seq' = r.seq
                   /\ IF r.raised
                      THEN Done(rq, "500", <<"Failed to save favorite: ">> \o r.err, FALSE,
                                <<>>, called, 0, FALSE, r.fault, FALSE)
                      ELSE Done(rq, "200", r.text, Contains(r.text, OkMark), <<>>,
                                called, 0, FALSE, r.fault, r.outcome = "saved")
    /\ UNCHANGED <<histVars, callVars, env_key, session>>

\* src/api.py lines 206-225 (an empty frame gives the empty list)
get_favorite_places ==
    /\ \E f \in Faults :
        LET rq == Request("get_favorites", EmptyStr, EmptyStr, <<>>, {}, EmptyStr)
            r == get_favorites(store, f[1], f[2])
        IN IF r.raised
           THEN Done(rq, "500", <<"Failed to retrieve favorites: ">> \o r.err, FALSE,
                     <<>>, <<>>, 0, FALSE, r.fault, FALSE)
           ELSE Done(rq, "200", EmptyStr, FALSE, r.rows, <<>>, 0, FALSE, r.fault, FALSE)
    /\ UNCHANGED <<dbVars, histVars, callVars, env_key, session>>

\* src/api.py lines 227-243
clear_favorite_places ==
    /\ \E e \in {NoErr} \cup StoreErrors :
        LET rq == Request("clear_favorites", EmptyStr, EmptyStr, <<>>, {}, EmptyStr)
            r == clear_favorites(store, e)
        IN /\ store' = r.store
           /\ IF r.raised
              THEN Done(rq, "500", <<"Failed to clear favorites: ">> \o r.err, FALSE,
                        <<>>, <<>>, 0, FALSE, r.fault, FALSE)
              ELSE Done(rq, "200", <<OkMark, " All favorites have been cleared successfully!">>,
                        TRUE, <<>>, <<>>, 0, FALSE, NoErr, FALSE)
    /\ UNCHANGED <<seq, histVars, callVars, env_key, session>>

--------------------------------------------------------------------------
(* SpecUi: the handlers of one Streamlit session (src/app.py) *)

\* line 19: the key typed in the sidebar
UiSetApiKey ==
    /\ \E k \in {EmptyStr, Key} :
        /\ session' = [session EXCEPT !.api_key = k]
        /\ Done(Request("ui_key", EmptyStr, EmptyStr, <<>>, {}, EmptyStr), "shown", EmptyStr,
                FALSE, <<>>, <<>>, 0, FALSE, NoErr, FALSE)
    /\ UNCHANGED <<dbVars, histVars, callVars, env_key>>

\* lines 23-28: "Show My List"
UiShowList ==
    /\ \E f \in Faults :
        LET rq == Request("ui_list", EmptyStr, EmptyStr, <<>>, {}, EmptyStr)
            r == get_favorites(store, f[1], f[2])
        IN IF r.raised
           THEN Done(rq, "raised", r.err, FALSE, <<>>, <<>>, 0, FALSE, r.fault, FALSE)
           ELSE IF r.rows = <<>>
           THEN Done(rq, "shown", <<"Your list is empty. Ask the guide to save a place!">>,
                     FALSE, <<>>, <<>>, 0, FALSE, r.fault, FALSE)
           ELSE Done(rq, "shown", EmptyStr, FALSE, r.rows, <<>>, 0, FALSE, r.fault, FALSE)
    /\ UNCHANGED <<dbVars, histVars, callVars, env_key, session>>

\* lines 30-32: "Clear My List"
UiClear ==
    /\ \E e \in {NoErr} \cup StoreErrors :
        LET rq == Request("ui_clear", EmptyStr, EmptyStr, <<>>, {}, EmptyStr)
            r == clear_favorites(store, e)
        IN /\ store' = r.store
           /\ IF r.raised
              THEN Done(rq, "raised", r.err, FALSE, <<>>, <<>>, 0, FALSE, r.fault, FALSE)
              ELSE Done(rq, "shown", <<"Your favorites list has been cleared!">>, TRUE,
                        <<>>, <<>>, 0, FALSE, NoErr, FALSE)
    /\ UNCHANGED <<seq, histVars, callVars, env_key, session>>

\* lines 41-55: "Generate Guide", offered while the session has no message
UiGenerateGuide ==
    /\ session.messages = <<>>
    /\ \E city \in {EmptyStr, Paris, Tokyo} :
        LET rq == Request("ui_guide", city, EmptyStr, <<>>, {session.city_context}, EmptyStr)
        IN IF session.api_key = EmptyStr
           THEN /\ Done(rq, "shown",
                        <<WarnMark, " Please enter your Gemini API Key in the sidebar.">>,
                        FALSE, <<>>, <<>>, 0, FALSE, NoErr, FALSE)
                /\ UNCHANGED session
           ELSE IF city = EmptyStr
           THEN /\ Done(rq, "shown", <<"Please enter a city name.">>, FALSE, <<>>, <<>>, 0,
                        FALSE, NoErr, FALSE)
                /\ UNCHANGED session
           ELSE \E g \in GenOutcomes :
                IF g = "text"
                THEN /\ Done(rq, "shown", GenText, FALSE, <<>>, <<>>, 1, FALSE, NoErr, FALSE)
                     /\ session' = [session EXCEPT !.city_context = city,
                                                   !.messages = Append(@, "assistant")]
                ELSE /\ Done(rq, "raised", GenError, FALSE, <<>>, <<>>, 1, TRUE, NoErr, FALSE)
                     /\ session' = [session EXCEPT !.city_context = city]
    /\ UNCHANGED <<dbVars, histVars, callVars, env_key>>

\* lines 57-72: the chat input.  The generation client is called with whatever
\* key the session holds; without a key it can only raise.
UiChat ==
    /\ Len(session.messages) + 2 <= MaxUiMsgs
    /\ \E prompt \in Prompts :
        LET rq == Request("ui_chat", EmptyStr, EmptyStr, <<>>, {session.city_context}, prompt)
            asked == Append(session.messages, "user")
            match == save_match(prompt)
        IN IF match # {}
           THEN \E f \in Faults :
                LET place_to_save == strip(CHOOSE m \in match : TRUE)
                    r == add_favorite(store, seq, session.city_context, place_to_save,
                                      f[1], f[2])
                    called == <<<<session.city_context, place_to_save>>>>
                IN /\ r.seq <= MaxId
                   /\ store' = r.store
                   /\ seq' = r.seq
                   /\ IF r.raised
                      THEN /\ Done(rq, "raised", r.err, FALSE, <<>>, called, 0, FALSE,
                                   r.fault, FALSE)
                           /\ session' = [session EXCEPT !.messages = asked]
                      ELSE /\ Done(rq, "shown", r.text, FALSE, <<>>, called, 0, FALSE,
                                   r.fault, r.outcome = "saved")
                           /\ session' = [session EXCEPT
                                             !.messages = Append(asked, "assistant")]
           ELSE /\ UNCHANGED dbVars
                /\ \E g \in GenOutcomes :
                    /\ session.api_key = EmptyStr => g # "text"
                    /\ IF g = "text"
                       THEN /\ Done(rq, "shown", GenText, FALSE, <<>>, <<>>, 1, FALSE,
                                    NoErr, FALSE)
                            /\ session' = [session EXCEPT
                                              !.messages = Append(asked, "assistant")]
                       ELSE /\ Done(rq, "raised", GenError, FALSE, <<>>, <<>>, 1, TRUE,
                                    NoErr, FALSE)
                            /\ session' = [session EXCEPT !.messages = asked]
    /\ UNCHANGED <<histVars, callVars, env_key>>

\* lines 9-14: a new browser session starts from the defaults
UiNewSession ==
    /\ session # NoSession
    /\ session' = NoSession
    /\ Done(Request("ui_new", EmptyStr, EmptyStr, <<>>, {}, EmptyStr), "shown", EmptyStr,
            FALSE, <<>>, <<>>, 0, FALSE, NoErr, FALSE)
    /\ UNCHANGED <<dbVars, histVars, callVars, env_key>>

--------------------------------------------------------------------------
(* The specifications *)

\* init_db (src/db.py lines 6-17) has created the empty table
Init ==
    /\ store = <<>>
    /\ seq = 0
    /\ phase = [p \in Callers |-> "idle"]
    /\ call = [p \in Callers |-> NoCall]
    /\ ret = NoRet
    /\ outcomes = [p \in Places |-> <<>>]
    /\ log = <<>>
    /\ cleared = {}
    /\ env_key = {}
    /\ session = NoSession
    /\ last = NoLast

Next ==
    \E p \in Callers :
        \/ AddFavoriteCall(p)
        \/ AddFavoriteExec(p)
        \/ GetFavorites(p)
        \/ ClearFavorites(p)

Spec == Init /\ [][Next]_vars

\* the handlers are reached with GEMINI_API_KEY unset, empty or set
InitSurface ==
    /\ store = <<>>
    /\ seq = 0
    /\ phase = [p \in Callers |-> "idle"]
    /\ call = [p \in Callers |-> NoCall]
    /\ ret = NoRet
    /\ outcomes = [p \in Places |-> <<>>]
    /\ log = <<>>
    /\ cleared = {}
    /\ env_key \in EnvKeys
    /\ session = NoSession
    /\ last = NoLast

NextSurface ==
    \/ get_travel_guide
    \/ chat_with_guide
    \/ save_favorite_place
    \/ get_favorite_places
    \/ clear_favorite_places

SpecSurface == InitSurface /\ [][NextSurface]_vars

NextUi ==
    \/ UiSetApiKey
    \/ UiShowList
    \/ UiClear
    \/ UiGenerateGuide
    \/ UiChat
    \/ UiNewSession

SpecUi == Init /\ [][NextUi]_vars

--------------------------------------------------------------------------
(* Properties of the store, checked under Spec *)

\* a step in which the db function fn returns
Returns(fn) == ret' # ret /\ ret'.fn = fn

\* C1: in every reachable state, whatever the interleaving of adds and clears
\* (racing adds of one place_name under different cities included), no two rows
\* of the store have the same place_name: uniqueness is global, not per city.
C1_GlobalUniqueness ==
    \A i, j \in 1..Len(store) :
        store[i].place_name = store[j].place_name => i = j

\* C1 witness: an add of the Louvre under Tokyo was answered "duplicate" while the
\* Louvre is stored under Paris, next to another row.
C1_Witness ==
    /\ ret.fn = "add" /\ ret.city = Tokyo /\ ret.text = duplicate_text(Louvre)
    /\ Len(store) = 2
    /\ \E i \in 1..Len(store) : store[i].place_name = Louvre /\ store[i].city = Paris

\* the adds of place_name pl that the store answered without an error, in order
Answered(pl) == SelectSeq(outcomes[pl], LAMBDA o : o.outcome # "failed")

\* C2, as claimed: of any two adds of one non-empty place_name with non-empty
\* cities since the last clear (one after the other or racing), exactly one
\* returned saved and the other one duplicate, exactly one row holds the
\* place_name, and the row has the city of the add that saved it.
C2_AsClaimed ==
    \A pl \in Places :
        Len(outcomes[pl]) >= 2 =>
            /\ outcomes[pl][1].outcome = "saved"
            /\ outcomes[pl][2].outcome = "duplicate"
            /\ Cardinality({i \in 1..Len(store) : store[i].place_name = pl}) = 1
            /\ \A i \in 1..Len(store) :
                   store[i].place_name = pl => store[i].city = outcomes[pl][1].city

\* C2, amended: of the adds of one non-empty place_name with non-empty cities
\* since the last clear that met no store error (one after the other or racing,
\* equal or different cities), the first returned saved and every other one
\* duplicate, exactly one row holds the place_name, and the row has the city of
\* the add that saved it; an add that met a store error returned the failure
\* text and, as long as no add has saved the place_name, no row holds it.
C2_SavedThenDuplicate ==
    \A pl \in Places :
        /\ Len(Answered(pl)) >= 1 =>
            /\ Answered(pl)[1].outcome = "saved"
            /\ \A k \in 2..Len(Answered(pl)) : Answered(pl)[k].outcome = "duplicate"
            /\ Cardinality({i \in 1..Len(store) : store[i].place_name = pl}) = 1
            /\ \A i \in 1..Len(store) :
                   store[i].place_name = pl => store[i].city = Answered(pl)[1].city
        /\ Len(Answered(pl)) = 0 => \A i \in 1..Len(store) : store[i].place_name # pl

\* C2 witness: the Louvre was saved under Paris, then an add under Tokyo came back
\* duplicate.
C2_Witness ==
    /\ Len(outcomes[Louvre]) = 2
    /\ outcomes[Louvre][1] = [outcome |-> "saved", city |-> Paris]
    /\ outcomes[Louvre][2].outcome = "duplicate"
    /\ ret.city = Tokyo /\ ret.text = duplicate_text(Louvre)

\* C5: an add with an empty city or an empty place_name returns the validation
\* warning, raises nothing and leaves the table and its counter as they were.
C5_ValidationFrame ==
    [][(Returns("add")
            /\ (ret'.city = EmptyStr \/ ret'.place_name = EmptyStr))
          => /\ ret'.text = warning_text
             /\ ~ret'.raised
             /\ store' = store
             /\ seq' = seq]_vars

\* C5 witness: add("", Louvre) returned the warning on a store that holds a row.
C5_Witness ==
    /\ ret.fn = "add" /\ ret.city = EmptyStr /\ ret.place_name = Louvre
    /\ ret.text = warning_text
    /\ Len(store) >= 1

\* C6: a clear that completes leaves the store empty, whatever it held and also
\* when it was empty already; a list that returns after a clear has deleted rows
\* and before any add has saved again returns the empty sequence; and the first
\* add (valid, meeting no store error) of a place_name after a clear that
\* deleted it returns saved and stores it again.
C6_ClearEmpties ==
    [][/\ (Returns("clear") /\ ~ret'.raised) => store' = <<>>
       /\ (Returns("list") /\ ~ret'.raised /\ cleared # {} /\ log = <<>>) =>
              ret'.rows = <<>>
       /\ \A pl \in cleared :
              (Returns("add") /\ ret'.place_name = pl /\ ret'.city # EmptyStr
                  /\ ret'.fault = NoErr /\ Len(Answered(pl)) = 0) =>
                     (ret'.text = saved_text(pl) /\ unique_violation(store', pl))]_vars

\* C6 witness: a clear deleted the Louvre, and the Louvre has been saved again.
C6_Witness ==
    /\ Louvre \in cleared
    /\ ret.fn = "add" /\ ret.text = saved_text(Louvre)
    /\ \E i \in 1..Len(store) : store[i].place_name = Louvre

\* C9: a list that returns gives one entry per add that returned saved since
\* the last clear, in the order of those adds, each with the city and the
\* place_name of its add (the empty sequence when there is none), and no error.
C9_ListInOrder ==
    [][(Returns("list") /\ ~ret'.raised) => ret'.rows = log]_vars

--------------------------------------------------------------------------
(* Properties of the request handlers, checked under SpecSurface and SpecUi *)

\* the message the router must look at: the last one whose role is user
LatestUser(messages) ==
    IF \E i \in 1..Len(messages) : messages[i].role = "user"
    THEN (CHOOSE m \in {<<i, messages[i].content>> : i \in 1..Len(messages)} :
             /\ messages[m[1]].role = "user"
             /\ \A j \in (m[1] + 1)..Len(messages) : messages[j].role # "user")[2]
    ELSE EmptyStr

\* what re.search(r"save\s+(.+)", text, re.IGNORECASE) followed by
\* group(1).strip() gives in Python on each message of the inputs: {} for no
\* match, else the candidate place name
PythonCandidate(text) ==
    CASE text = c_save_L -> {Louvre}
      [] text = c_SAVE_L_padded -> {Louvre}
      [] text = c_save_lines -> {Louvre}
      [] text = c_xsave_mark -> {MarkedPlace}
      [] text = c_save_blank -> {EmptyStr}
      [] OTHER -> {}

NoCityContext(city_context) == city_context = {} \/ city_context = {EmptyStr}

AddTexts(place_name) ==
    {warning_text, saved_text(place_name), duplicate_text(place_name)}
        \cup {error_text(x) : x \in StoreErrors}

\* C3: when the latest user message of a /chat transcript (assistant messages
\* after it or not) matches the save pattern and a city context is present, the
\* handler calls add(city_context, candidate) once, candidate being the trimmed
\* capture, does not call the generation client, answers with the status text
\* of add when add returns, and never answers 503, whatever the credential.
C3_SaveBranch ==
    (last.op = "chat"
       /\ PythonCandidate(LatestUser(last.messages)) # {}
       /\ ~NoCityContext(last.city_context)) =>
        LET candidate == CHOOSE c \in PythonCandidate(LatestUser(last.messages)) : TRUE
            city == CHOOSE c \in last.city_context : TRUE
        IN /\ last.addCalls = <<<<city, candidate>>>>
           /\ last.genCalls = 0
           /\ last.status \in {"200", "500"}
           /\ last.status = "200" => last.text \in AddTexts(candidate)
           /\ last.status = "500" => last.fault # NoErr

\* C3 witness: with no credential configured, the transcript "SAVE  L " (user)
\* then an assistant message, under city context Paris, saved the Louvre for
\* Paris and answered with the saved text.
C3_Witness ==
    /\ last.op = "chat"
    /\ last.messages = <<U(c_SAVE_L_padded), A(c_xsave_mark)>>
    /\ last.city_context = {Paris}
    /\ key_missing(env_key)
    /\ last.addCalls = <<<<Paris, Louvre>>>>
    /\ last.genCalls = 0
    /\ last.status = "200" /\ last.text = saved_text(Louvre)
    /\ \E i \in 1..Len(store) : store[i].city = Paris /\ store[i].place_name = Louvre

\* C4: a chat turn whose latest user message matches the save pattern while no
\* city context is set calls the generation client (a credential being held),
\* does not call add and inserts nothing, in the HTTP /chat handler and in the
\* chat handler of the Streamlit session alike.
C4_NoContextFallsThrough ==
    /\ (last.op = "chat"
          /\ PythonCandidate(LatestUser(last.messages)) # {}
          /\ NoCityContext(last.city_context)
          /\ ~key_missing(env_key)) =>
           (last.genCalls = 1 /\ last.addCalls = <<>> /\ ~last.inserted)
    /\ (last.op = "ui_chat"
          /\ PythonCandidate(last.prompt) # {}
          /\ NoCityContext(last.city_context)
          /\ session.api_key # EmptyStr) =>
           (last.genCalls = 1 /\ last.addCalls = <<>> /\ ~last.inserted)

\* C7: with no credential configured, every /guide request and every /chat
\* request on the non-save branch is answered 503 without a call of the
\* generation client; and 503 is answered only for a missing credential, not
\* for a failure of the generation call.
C7_UnavailableIffNoCredential ==
    (last.op \in {"guide", "chat"} /\ last.addCalls = <<>>) =>
        /\ key_missing(env_key) => (last.status = "503" /\ last.genCalls = 0)
        /\ last.status = "503" => (key_missing(env_key) /\ ~last.genRaised)

\* C8: a store error other than a uniqueness violation during add, list or
\* clear, reached through POST/GET/DELETE /favorites or the save branch of
\* /chat, is answered by an internal-error response that carries the message
\* of the error, never by a successful response.
C8_StoreErrorIsInternalError ==
    (last.op \in {"save_favorite", "get_favorites", "clear_favorites", "chat"}
       /\ last.fault # NoErr) =>
        /\ last.status = "500"
        /\ Contains(last.text, last.fault[1])

\* C10: POST /favorites answers success = true exactly when the call inserted a
\* row, whatever the city and the place_name (a place_name holding the marker
\* glyph included).
C10_SuccessIffInserted ==
    last.op = "save_favorite" => (last.success <=> last.inserted)

====
